---- MODULE Spec2Model ----
(***************************************************************************)
(* Lapzen: the admin server actions on the product catalogue               *)
(* (src/src/app/admin/actions.ts), the storefront page and its filter      *)
(* (src/src/app/products/page.tsx) and the rotation of the admin           *)
(* credentials (updateCredentials over data/auth.json), as state machines. *)
(*                                                                         *)
(* Image strings are modelled by what the code tests on them:              *)
(*   <<"url", n>>    the download URL of storage object n                  *)
(*   <<"png", p>>    "data:image/png;base64,<payload p>" (also jpeg, jpg)  *)
(*   <<"gif", 0>>    "data:image/gif;base64,..": has the marker, fails the *)
(*                   regular expression of uploadImage                     *)
(*   <<"other", 0>>  any other string the schema's z.string() accepts,     *)
(*                   e.g. "data:application/pdf;base64,.." read by the     *)
(*                   form's FileReader from a non-image file               *)
(***************************************************************************)
EXTENDS Integers, Sequences, FiniteSets, TLC

\* productSchema: images .min(1) and .max(5)
MinImages == 1
MaxImages == 5

\* Bounds of the model.
MaxLen == 3        \* longest submission composed freely from the image universe
MaxCalls == 2      \* server-action calls in one behaviour
NPayloads == 2     \* distinct image payloads a submitter can choose
MaxStr == 1        \* longest brand filter, and longest brand of a lone product
MaxPrice == 2      \* highest price and price ceiling
MaxProducts == 3   \* longest product list
MaxLoaded == 2     \* longest product list the storefront page loads
MaxCredCalls == 3  \* updateCredentials calls in one behaviour
MaxRaceLen == 2    \* longest image list of two racing updates
MaxSelect == 3     \* most files of one selection in the product form
MaxFiles == 5      \* files selected in one behaviour of the product form
MaxReads == 2      \* most handleImageChange calls awaiting their reads

\* The request slots (one call runs in a slot from its call to its return).
Slots == {1, 2}

\* The submitted fields other than images. name stands for the required
\* fields (an empty name is what productSchema rejects), featured for the
\* optional flags featured and newArrival: safeParse leaves a flag that was not
\* submitted out of result.data.
Fields == {[name |-> "n1", featured |-> TRUE], [name |-> "n2"], [name |-> ""]}

\* The field sets of the behaviours that are about images only.
ImageFields == {[name |-> "n1", featured |-> TRUE], [name |-> ""]}

VARIABLES
    store,      \* Firestore collection 'products': document id -> record
    storage,    \* Firebase Storage: object name -> uploaded payload
    nextDoc,    \* the next auto-generated document id (addDoc)
    nextObj,    \* the next fresh object name (Date.now()-random in uploadImage)
    calls,      \* calls made so far
    req,        \* slot -> the state of the call running in it
    allProducts,        \* ProductsPage: the loaded product list
    filters,            \* ProductsPage: the filter state
    filteredProducts,   \* ProductsPage: the memoised filtered list
    rendered,           \* whether filteredProducts has been computed
    maxPrice,           \* ProductsPage: the maximum offered to the filter UI
    loading,            \* ProductsPage: the product load has not completed
    pageLog,            \* history: the last page event, and whether a filter
                        \* was changed since the load
    authFile,           \* data/auth.json: the set of the pair it holds, {} when
                        \* the file is absent
    cred,               \* the state of the updateCredentials call
    credCalls,          \* updateCredentials calls made so far
    rotation,           \* history: the set of the last successful rotation
    credReq,            \* slot -> the state of the updateCredentials call
                        \* running in it, for calls that run concurrently
    formImages,         \* ProductForm: the form value 'images'
    imagePreview,       \* ProductForm: the previewed image list
    reads,              \* ProductForm: the handleImageChange calls that await
                        \* their file reads
    formToast,          \* ProductForm: the last toast shown
    nextFile,           \* the next file the user selects
    removed             \* history: the images the user removed

adminVars == <<store, storage, nextDoc, nextObj, calls, req>>
pageVars == <<allProducts, filters, filteredProducts, rendered, maxPrice, loading,
              pageLog>>
credVars == <<authFile, cred, credCalls, rotation, credReq>>
formVars == <<formImages, imagePreview, reads, formToast, nextFile, removed>>
vars == <<adminVars, pageVars, credVars, formVars>>

----------------------------------------------------------------------------
\* Helpers on sequences, as the JavaScript array methods compute them.

\* Array.prototype.includes
Includes(s, x) == \E i \in 1..Len(s) : s[i] = x

Range(s) == {s[i] : i \in 1..Len(s)}

----------------------------------------------------------------------------
\* uploadImage and the reconciliation of updateProduct.

\* dataUri.startsWith('data:image')
StartsWithDataImage(img) == img[1] \in {"png", "gif"}

\* dataUri.match(/^data:(image\/(?:png|jpeg|jpg));base64,(.*)$/)
MatchesDataUri(img) == img[1] = "png"

\* getDownloadURL(storageRef): the hosted reference of object n
UrlOf(n) == <<"url", n>>

\* ref(storage, imageUrl): the object a string refers to (0: none)
ObjectOf(img) == IF img[1] = "url" THEN img[2] ELSE 0

\* The promises of images.map(image => uploadImage(image, id)), right after the
\* map has run: a string without the marker resolves to itself, a marked string
\* failing the regular expression is rejected, any other has its object name
\* fixed and its uploadString in flight.
StartUploads(images, base) ==
    [i \in 1..Len(images) |->
        IF ~StartsWithDataImage(images[i]) THEN <<"url", images[i]>>
        ELSE IF ~MatchesDataUri(images[i]) THEN <<"err", images[i]>>
        ELSE <<"pend",
               UrlOf(base + Cardinality({j \in 1..(i-1) : MatchesDataUri(images[j])}))>>]

NamesUsed(images) == Cardinality({j \in 1..Len(images) : MatchesDataUri(images[j])})

\* Mutant of Resolved: the results collected as the uploads complete, the last
\* started first, instead of by position.
ResolvedReversed(up) == [i \in 1..Len(up) |-> up[Len(up) + 1 - i][2]]

\* The value Promise.all resolves to: the results in submission order.
Resolved(up) == [i \in 1..Len(up) |-> up[i][2]]

\* Mutant of ImagesToDelete: compares the two lists position by position, so an
\* image kept at another position counts as removed.
ImagesToDeletePositional(existing, newImageUrls) ==
    LET moved == {i \in 1..Len(existing) :
                     i > Len(newImageUrls) \/ newImageUrls[i] # existing[i]} IN
    [k \in 1..Cardinality(moved) |->
        existing[CHOOSE i \in moved : Cardinality({j \in moved : j < i}) = k - 1]]

RECURSIVE ImagesToDelete(_, _)
\* existingImages.filter(img => !newImageUrls.includes(img)): Array.filter keeps,
\* in order, the elements of existingImages that newImageUrls does not include
ImagesToDelete(existing, newImageUrls) ==
    IF existing = <<>> THEN <<>>
    ELSE IF ~Includes(newImageUrls, Head(existing))
         THEN <<Head(existing)>> \o ImagesToDelete(Tail(existing), newImageUrls)
         ELSE ImagesToDelete(Tail(existing), newImageUrls)

\* Mutant of SchemaOk: the .max(5) rule is missing.
SchemaOkNoMax(data, images) ==
    /\ data.name # ""
    /\ Len(images) >= MinImages

\* productSchema.safeParse(data).success
SchemaOk(data, images) ==
    /\ data.name # ""
    /\ Len(images) >= MinImages
    /\ Len(images) <= MaxImages

----------------------------------------------------------------------------
\* The state of a call.

\* A slot no call has run in.
Idle ==
    [op |-> "none", pc |-> "idle", id |-> 0, data |-> [name |-> ""], images |-> <<>>,
     existing |-> <<>>, up |-> <<>>, final |-> <<>>, toDelete |-> <<>>, di |-> 1,
     result |-> "none", cause |-> "none", attempted |-> <<>>, wseq |-> 0,
     pre |-> [store |-> <<>>, storage |-> <<>>]]

\* An upload of the call is still in flight.
InFlight(q) == \E i \in 1..Len(q.up) : q.up[i][1] = "pend"

\* return { success: false, ... } with the given reason
Fail(q, result, cause) == [q EXCEPT !.pc = "done", !.result = result, !.cause = cause]

\* Mutant of AfterUploads: waits for every upload to settle (Promise.allSettled)
\* and goes on with the uploads that succeeded.
AfterUploadsSettled(q) ==
    IF q.pc # "upload" \/ (\E i \in 1..Len(q.up) : q.up[i][1] = "pend") THEN q
    ELSE LET ok == {i \in 1..Len(q.up) : q.up[i][1] = "url"}
             newImageUrls ==
                 [k \in 1..Cardinality(ok) |->
                     q.up[CHOOSE i \in ok : Cardinality({j \in ok : j < i}) = k - 1][2]] IN
         IF q.op = "add" THEN [q EXCEPT !.final = newImageUrls, !.pc = "write"]
         ELSE [q EXCEPT !.final = newImageUrls, !.toDelete = <<>>, !.di = 1, !.pc = "write"]

\* The continuation of `await Promise.all(...)`: Promise.all rejects with the
\* first rejection (the catch block returns the failure) and resolves once
\* every promise has; addProduct then issues addDoc, updateProduct computes
\* imagesToDelete and enters its clean-up loop (or issues updateDoc when the
\* loop has nothing to do). Uploads that settle after the call has returned
\* have no continuation.
AfterUploads(q) ==
    IF q.pc # "upload" THEN q
    ELSE IF \E i \in 1..Len(q.up) : q.up[i][1] = "err" THEN Fail(q, "failed", "upload")
    ELSE IF \A i \in 1..Len(q.up) : q.up[i][1] = "url" THEN
        LET newImageUrls == Resolved(q.up) IN
        IF q.op = "add" THEN [q EXCEPT !.final = newImageUrls, !.pc = "write"]
        ELSE LET del == ImagesToDelete(q.existing, newImageUrls) IN
             [q EXCEPT !.final = newImageUrls, !.toDelete = del, !.di = 1,
                       !.pc = IF del = <<>> THEN "write" ELSE "delete"]
    ELSE q

\* The strings a submission is composed of: the payloads a submitter can
\* choose, a marked string the regular expression rejects, an unmarked string
\* that is no hosted reference, and the hosted references the records hold
\* (what the admin form starts from).
Universe ==
    {<<"png", p>> : p \in 1..NPayloads}
    \cup {<<"gif", 0>>, <<"other", 0>>}
    \cup UNION {Range(store[d].images) : d \in DOMAIN store}

SeqsUpTo(S, n) == UNION {[1..k -> S] : k \in 0..n}

\* The submitted image lists: every list of at most MaxLen strings, and the
\* lists of MaxImages and MaxImages + 1 copies of one payload.
Submissions ==
    SeqsUpTo(Universe, MaxLen)
    \cup {[i \in 1..n |-> <<"png", 1>>] : n \in {MaxImages, MaxImages + 1}}

\* The identifiers a caller passes: those of the records, and one of no record.
Ids == DOMAIN store \cup {nextDoc}

----------------------------------------------------------------------------
\* The server actions, one action per await.

\* A slot is free for a new call once its call has returned and the uploads the
\* call left in flight have settled.
Free(r) == req[r].pc \in {"idle", "done"} /\ ~InFlight(req[r]) /\ calls < MaxCalls

\* addProduct(data), up to its first await: safeParse, then the uploads start.
CallAdd(r, data, images) ==
    /\ Free(r)
    /\ calls' = calls + 1
    /\ LET q == [Idle EXCEPT !.op = "add", !.data = data, !.images = images,
                             !.pre = [store |-> store, storage |-> storage]] IN
       IF ~SchemaOk(data, images)
       THEN /\ req' = [req EXCEPT ![r] = Fail(q, "validation", "schema")]
            /\ UNCHANGED nextObj
       ELSE /\ req' = [req EXCEPT ![r] =
                          AfterUploads([q EXCEPT !.pc = "upload",
                                                 !.up = StartUploads(images, nextObj)])]
            /\ nextObj' = nextObj + NamesUsed(images)
    /\ UNCHANGED <<store, storage, nextDoc>>

\* updateProduct(id, data), up to its first await: safeParse, then getDoc.
CallUpdate(r, id, data, images) ==
    /\ Free(r)
    /\ calls' = calls + 1
    /\ LET q == [Idle EXCEPT !.op = "update", !.id = id, !.data = data, !.images = images,
                             !.pre = [store |-> store, storage |-> storage]] IN
       req' = [req EXCEPT ![r] = IF ~SchemaOk(data, images)
                                 THEN Fail(q, "validation", "schema")
                                 ELSE [q EXCEPT !.pc = "read"]]
    /\ UNCHANGED <<store, storage, nextDoc, nextObj>>

\* deleteProduct(id), up to its first await: getDoc.
CallDelete(r, id) ==
    /\ Free(r)
    /\ calls' = calls + 1
    /\ req' = [req EXCEPT ![r] = [Idle EXCEPT !.op = "delete", !.id = id, !.pc = "read",
                                     !.pre = [store |-> store, storage |-> storage]]]
    /\ UNCHANGED <<store, storage, nextDoc, nextObj>>

\* getDoc rejects: the catch block returns the generic failure.
ReadFails(r) ==
    /\ req[r].pc = "read"
    /\ req' = [req EXCEPT ![r] = Fail(@, "failed", "read")]
    /\ UNCHANGED <<store, storage, nextDoc, nextObj, calls>>

\* Mutant of ReadDone: updateProduct does not test existingDoc.exists() and
\* takes the image list of a missing record to be empty.
ReadDoneNoExistsCheck(r) ==
    /\ req[r].pc = "read"
    /\ LET q == req[r] IN
       IF q.op = "update"
       THEN /\ req' = [req EXCEPT ![r] =
                          AfterUploads([q EXCEPT !.existing = IF q.id \in DOMAIN store
                                                              THEN store[q.id].images
                                                              ELSE <<>>,
                                                 !.pc = "upload",
                                                 !.up = StartUploads(q.images, nextObj)])]
            /\ nextObj' = nextObj + NamesUsed(q.images)
       ELSE IF q.id \notin DOMAIN store
       THEN /\ req' = [req EXCEPT ![r] = Fail(q, "notfound", "notfound")]
            /\ UNCHANGED nextObj
       ELSE /\ req' = [req EXCEPT ![r] =
                          [q EXCEPT !.existing = store[q.id].images,
                                    !.toDelete = store[q.id].images, !.di = 1,
                                    !.pc = IF Len(store[q.id].images) > 0
                                           THEN "delete" ELSE "write"]]
            /\ UNCHANGED nextObj
    /\ UNCHANGED <<store, storage, nextDoc, calls>>

\* Mutant of ReadDone: deleteProduct deletes the first image of the record
\* only.
ReadDoneFirstImageOnly(r) ==
    /\ req[r].pc = "read"
    /\ LET q == req[r] IN
       IF q.id \notin DOMAIN store
       THEN /\ req' = [req EXCEPT ![r] = Fail(q, "notfound", "notfound")]
            /\ UNCHANGED nextObj
       ELSE IF q.op = "update"
       THEN /\ req' = [req EXCEPT ![r] =
                          AfterUploads([q EXCEPT !.existing = store[q.id].images,
                                                 !.pc = "upload",
                                                 !.up = StartUploads(q.images, nextObj)])]
            /\ nextObj' = nextObj + NamesUsed(q.images)
       ELSE /\ req' = [req EXCEPT ![r] =
                          [q EXCEPT !.existing = store[q.id].images,
                                    !.toDelete = SubSeq(store[q.id].images, 1, 1), !.di = 1,
                                    !.pc = IF Len(store[q.id].images) > 0
                                           THEN "delete" ELSE "write"]]
            /\ UNCHANGED nextObj
    /\ UNCHANGED <<store, storage, nextDoc, calls>>

\* getDoc resolves. No record: 'Product not found'. updateProduct starts its
\* uploads; deleteProduct enters its loop over the record's images.
ReadDone(r) ==
    /\ req[r].pc = "read"
    /\ LET q == req[r] IN
       IF q.id \notin DOMAIN store
       THEN /\ req' = [req EXCEPT ![r] = Fail(q, "notfound", "notfound")]
            /\ UNCHANGED nextObj
       ELSE IF q.op = "update"
       THEN /\ req' = [req EXCEPT ![r] =
                          AfterUploads([q EXCEPT !.existing = store[q.id].images,
                                                 !.pc = "upload",
                                                 !.up = StartUploads(q.images, nextObj)])]
            /\ nextObj' = nextObj + NamesUsed(q.images)
       ELSE /\ req' = [req EXCEPT ![r] =
                          [q EXCEPT !.existing = store[q.id].images,
                                    !.toDelete = store[q.id].images, !.di = 1,
                                    !.pc = IF Len(store[q.id].images) > 0
                                           THEN "delete" ELSE "write"]]
            /\ UNCHANGED nextObj
    /\ UNCHANGED <<store, storage, nextDoc, calls>>

\* uploadImage of image i resolves: uploadString has stored the object and
\* getDownloadURL has returned its hosted reference.
UploadDone(r, i) ==
    /\ req[r].up[i][1] = "pend"
    /\ storage' = (ObjectOf(req[r].up[i][2]) :> req[r].images[i][2]) @@ storage
    /\ req' = [req EXCEPT ![r] = AfterUploads([@ EXCEPT !.up[i][1] = "url"])]
    /\ UNCHANGED <<store, nextDoc, nextObj, calls>>

\* uploadImage of image i rejects: in uploadString (nothing is stored), or in
\* getDownloadURL (the object has been stored).
UploadFails(r, i, stored) ==
    /\ req[r].up[i][1] = "pend"
    /\ storage' = IF stored
                  THEN (ObjectOf(req[r].up[i][2]) :> req[r].images[i][2]) @@ storage
                  ELSE storage
    /\ req' = [req EXCEPT ![r] = AfterUploads([@ EXCEPT !.up[i][1] = "err"])]
    /\ UNCHANGED <<store, nextDoc, nextObj, calls>>

\* Mutant of DeleteStep: only storage/object-not-found is swallowed, any other
\* rejection of deleteObject is rethrown to the outer catch.
DeleteStepRethrow(r, outcome) ==
    /\ req[r].pc = "delete"
    /\ LET q == req[r]
           img == q.toDelete[q.di]
           o == ObjectOf(img) IN
       /\ outcome = "deleted" => o \in DOMAIN storage
       /\ outcome = "not-found" => o \notin DOMAIN storage
       /\ storage' = IF outcome = "deleted"
                     THEN [n \in DOMAIN storage \ {o} |-> storage[n]]
                     ELSE storage
       /\ req' = [req EXCEPT ![r] =
                     IF outcome = "error"
                     THEN Fail([q EXCEPT !.attempted = Append(@, <<img, outcome>>)],
                               "failed", "delete")
                     ELSE [q EXCEPT !.attempted = Append(@, <<img, outcome>>),
                                    !.di = @ + 1,
                                    !.pc = IF q.di = Len(q.toDelete) THEN "write" ELSE "delete"]]
    /\ UNCHANGED <<store, nextDoc, nextObj, calls>>

\* One turn of the clean-up loop: deleteObject settles, the catch swallows a
\* rejection (logging any but storage/object-not-found), and the loop goes on
\* to the next image or, at its end, to updateDoc / deleteDoc.
DeleteStep(r, outcome) ==
    /\ req[r].pc = "delete"
    /\ LET q == req[r]
           img == q.toDelete[q.di]
           o == ObjectOf(img) IN
       /\ outcome = "deleted" => o \in DOMAIN storage
       /\ outcome = "not-found" => o \notin DOMAIN storage
       /\ storage' = IF outcome = "deleted"
                     THEN [n \in DOMAIN storage \ {o} |-> storage[n]]
                     ELSE storage
       /\ req' = [req EXCEPT ![r] =
                     [q EXCEPT !.attempted = Append(@, <<img, outcome>>),
                               !.di = @ + 1,
                               !.pc = IF q.di = Len(q.toDelete) THEN "write" ELSE "delete"]]
    /\ UNCHANGED <<store, nextDoc, nextObj, calls>>

\* addDoc / updateDoc / deleteDoc rejects: the catch block returns the failure.
WriteFails(r) ==
    /\ req[r].pc = "write"
    /\ req' = [req EXCEPT ![r] = Fail(@, "failed", "write")]
    /\ UNCHANGED <<store, storage, nextDoc, nextObj, calls>>

\* Mutant of UpdateDoc: the write stamps the record with a new timestamp.
UpdateDocStamped(record, data, images) ==
    [record EXCEPT !.data = data @@ @, !.images = images, !.createdAt = nextDoc]

\* updateDoc(productDocRef, { ...result.data, images: newImageUrls }): the
\* fields given replace those of the record, a field not given keeps the value
\* the record has.
UpdateDoc(record, data, images) ==
    [record EXCEPT !.data = data @@ @, !.images = images]

\* Mutant of WriteDone: the update writes with create-if-absent semantics
\* (setDoc with merge) in place of updateDoc.
WriteDoneUpsert(r) ==
    /\ req[r].pc = "write"
    /\ LET q == req[r] IN
       /\ store' = CASE q.op = "add" ->
                          (nextDoc :> [data |-> q.data, images |-> q.final,
                                       createdAt |-> nextDoc]) @@ store
                     [] q.op = "update" /\ q.id \in DOMAIN store ->
                          [store EXCEPT ![q.id] = UpdateDoc(@, q.data, q.final)]
                     [] q.op = "update" /\ q.id \notin DOMAIN store ->
                          (q.id :> [data |-> q.data, images |-> q.final,
                                    createdAt |-> 0]) @@ store
                     [] OTHER -> [d \in DOMAIN store \ {q.id} |-> store[d]]
       /\ nextDoc' = IF q.op = "add" THEN nextDoc + 1 ELSE nextDoc
       /\ req' = [req EXCEPT ![r] =
                     [q EXCEPT !.pc = "done", !.result = "ok",
                               !.wseq = 1 + Cardinality({s \in Slots : req[s].wseq > 0})]]
    /\ UNCHANGED <<storage, nextObj, calls>>

\* addDoc / updateDoc / deleteDoc resolves and the action returns success.
\* addDoc creates a record under a fresh id with createdAt; updateDoc replaces
\* the submitted fields of an existing record and rejects when there is none;
\* deleteDoc removes the record. wseq numbers the record writes in their order.
WriteDone(r) ==
    /\ req[r].pc = "write"
    /\ LET q == req[r] IN
       /\ q.op = "update" => q.id \in DOMAIN store
       /\ store' = CASE q.op = "add" ->
                          (nextDoc :> [data |-> q.data, images |-> q.final,
                                       createdAt |-> nextDoc]) @@ store
                     [] q.op = "update" ->
                          [store EXCEPT ![q.id] = UpdateDoc(@, q.data, q.final)]
                     [] OTHER -> [d \in DOMAIN store \ {q.id} |-> store[d]]
       /\ nextDoc' = IF q.op = "add" THEN nextDoc + 1 ELSE nextDoc
       /\ req' = [req EXCEPT ![r] =
                     [q EXCEPT !.pc = "done", !.result = "ok",
                               !.wseq = 1 + Cardinality({s \in Slots : req[s].wseq > 0})]]
    /\ UNCHANGED <<storage, nextObj, calls>>

\* useState(1000000): the ceiling before the products are loaded, and the
\* fallback of fetchProducts for an empty list.
DefaultMaxPrice == 1000000

\* The storefront page before its first render: the initial values of its
\* useState hooks.
PageIdle ==
    /\ allProducts = <<>>
    /\ loading = TRUE
    /\ maxPrice = DefaultMaxPrice
    /\ filters = [brand |-> <<>>, priceRange |-> <<0, DefaultMaxPrice>>, conditions |-> {},
                  processor |-> <<>>, ram |-> <<>>]
    /\ filteredProducts = <<>>
    /\ rendered = FALSE
    /\ pageLog = [last |-> "none", changed |-> FALSE]

\* const defaultCreds = { username: 'admin', password: 'password' }
DefaultCreds == [username |-> "admin", password |-> "password"]

\* No updateCredentials call has run. Of a call: its position, the submitted
\* data, the pair getAuthCredentials returned and how ("none", "file",
\* "fallback"), the result, the writes of saveAuthCredentials, and the file and
\* the last rotation as they were when the call was made.
NoCredCall ==
    [pc |-> "idle", currentPassword |-> "", newUsername |-> "", newPassword |-> "",
     currentCreds |-> DefaultCreds, read |-> "none", result |-> "none", writes |-> 0,
     pre |-> {}, seen |-> {}]

\* The credential file is absent and no rotation has been requested.
CredIdle ==
    /\ authFile = {}
    /\ cred = NoCredCall
    /\ credCalls = 0
    /\ rotation = {}
    /\ credReq = [r \in Slots |-> NoCredCall]

\* The product form is not open.
FormIdle ==
    /\ formImages = <<>>
    /\ imagePreview = <<>>
    /\ reads = {}
    /\ formToast = "none"
    /\ nextFile = 1
    /\ removed = {}

Init ==
    /\ PageIdle
    /\ CredIdle
    /\ FormIdle
    /\ store = <<>>
    /\ storage = <<>>
    /\ nextDoc = 1
    /\ nextObj = 1
    /\ calls = 0
    /\ req = [r \in Slots |-> Idle]

\* The steps of the calls running in the slots S, submitting fields of F.
Step(S, F) ==
    \E r \in S :
        \/ /\ Free(r)
           /\ \E data \in F, images \in Submissions : CallAdd(r, data, images)
        \/ /\ Free(r)
           /\ \E id \in Ids, data \in F, images \in Submissions :
                  CallUpdate(r, id, data, images)
        \/ /\ Free(r)
           /\ \E id \in Ids : CallDelete(r, id)
        \/ ReadFails(r)
        \/ ReadDone(r)
        \/ \E i \in 1..Len(req[r].up) : UploadDone(r, i)
        \/ \E i \in 1..Len(req[r].up), stored \in BOOLEAN : UploadFails(r, i, stored)
        \/ \E outcome \in {"deleted", "not-found", "error"} : DeleteStep(r, outcome)
        \/ WriteFails(r)
        \/ WriteDone(r)

\* One admin, one call at a time.
Next == Step({1}, ImageFields) /\ UNCHANGED <<pageVars, credVars, formVars>>

Spec == Init /\ [][Next]_vars

----------------------------------------------------------------------------
\* Properties of the server actions, under Spec (one call at a time, so that
\* req[r].pre is the store and the storage as the running call found them).

Running(q) == q.op \in {"add", "update"}

\* The objects the call has added to storage.
UploadedBy(q) == DOMAIN storage \ DOMAIN q.pre.storage

\* No persisted image string carries the 'data:image' marker at its start.
NoMarkedStringPersisted ==
    \A d \in DOMAIN store : \A i \in 1..Len(store[d].images) :
        ~StartsWithDataImage(store[d].images[i])

\* C1: in every reachable state no persisted record holds an inline-encoded
\* payload in its image list: every persisted image entry is a hosted reference.
C1_OnlyHostedReferencesPersisted ==
    \A d \in DOMAIN store : \A i \in 1..Len(store[d].images) :
        store[d].images[i][1] = "url"

\* C2: addProduct and updateProduct issue the record write only after every
\* upload of the submission has succeeded; once any upload has failed, in any
\* order of completion, the call has returned failure and no record has been
\* created or modified.
C2_WriteOnlyAfterAllUploads ==
    \A r \in Slots : LET q == req[r] IN
        Running(q) =>
            /\ (q.pc \in {"delete", "write"} \/ q.result = "ok" \/ q.cause = "write"
                \/ store # q.pre.store)
                   => \A i \in 1..Len(q.up) : q.up[i][1] = "url"
            /\ (\E i \in 1..Len(q.up) : q.up[i][1] = "err")
                   => /\ q.pc = "done"
                      /\ q.result = "failed"
                      /\ store = q.pre.store

\* C2's case: an upload failed after another upload of the same submission,
\* later in the list, had succeeded.
C2_Witness ==
    \E r \in Slots : LET q == req[r] IN
        /\ q.op = "update" /\ q.pc = "done" /\ q.result = "failed"
        /\ Len(q.up) >= 2
        /\ q.images[1][1] = "png" /\ q.up[1][1] = "err"
        /\ q.images[2][1] = "png" /\ q.up[2][1] = "url"
        /\ ObjectOf(q.up[2][2]) \in DOMAIN storage

\* A submission of hosted references and image payloads only.
WellFormed(images) == \A i \in 1..Len(images) : images[i][1] \in {"url", "png"}

\* C3: whenever updateProduct, called with a submission of hosted references
\* and image payloads, has returned failure, the persisted record is unchanged
\* and no hosted image the record references has been deleted from storage.
C3_FailedUpdateIsAtomic ==
    \A r \in Slots : LET q == req[r] IN
        (q.op = "update" /\ q.pc = "done" /\ q.result # "ok" /\ WellFormed(q.images)) =>
            /\ store = q.pre.store
            /\ q.id \in DOMAIN store =>
                   \A i \in 1..Len(store[q.id].images) :
                       LET o == ObjectOf(store[q.id].images[i]) IN
                       o \in DOMAIN q.pre.storage => o \in DOMAIN storage

\* C4: after a successful updateProduct the persisted image list has the length
\* and order of the submitted list: a pass-through string keeps its position,
\* an inline payload is replaced at its position by the hosted reference of the
\* object its own upload stored, and the call stored one object per payload.
C4_PositionalSubstitution ==
    \A r \in Slots : LET q == req[r] IN
        (q.op = "update" /\ q.pc = "done" /\ q.result = "ok") =>
            LET rec == store[q.id].images
                inline == {i \in 1..Len(q.images) : StartsWithDataImage(q.images[i])} IN
            /\ Len(rec) = Len(q.images)
            /\ \A i \in 1..Len(q.images) :
                   IF i \in inline
                   THEN /\ rec[i][1] = "url"
                        /\ rec[i][2] \in UploadedBy(q)
                        /\ storage[rec[i][2]] = q.images[i][2]
                        /\ \A j \in inline : j # i => rec[j] # rec[i]
                   ELSE rec[i] = q.images[i]
            /\ Cardinality(UploadedBy(q)) = Cardinality(inline)

\* C4's case: existing [A, B, C], submitted [A, inlineX, C], persisted
\* [A, hostedX, C] after exactly one upload.
C4_Witness ==
    \E r \in Slots : LET q == req[r] IN
        /\ q.op = "update" /\ q.pc = "done" /\ q.result = "ok"
        /\ Len(q.pre.store[q.id].images) = 3
        /\ Cardinality(Range(q.pre.store[q.id].images)) = 3
        /\ \A i \in 1..3 : q.pre.store[q.id].images[i][1] = "url"
        /\ Len(q.images) = 3
        /\ q.images[1] = q.pre.store[q.id].images[1]
        /\ q.images[2][1] = "png"
        /\ q.images[3] = q.pre.store[q.id].images[3]
        /\ store[q.id].images[1] = q.images[1]
        /\ store[q.id].images[3] = q.images[3]
        /\ Cardinality(UploadedBy(q)) = 1

\* The members of the previously stored list that the final list lacks.
Dropped(q) ==
    {img \in Range(q.pre.store[q.id].images) :
        \A i \in 1..Len(q.up) : q.up[i][2] # img}

\* C5: the images whose deletion updateProduct attempts are exactly the members
\* of the previously stored list that do not occur in the final reference list;
\* when the submitted list equals the existing list of hosted references,
\* nothing is uploaded and nothing is deleted.
C5_DeletesExactlyTheDropped ==
    \A r \in Slots : LET q == req[r] IN
        q.op = "update" =>
            LET tried == {q.attempted[k][1] : k \in 1..Len(q.attempted)} IN
            /\ q.pc = "delete" => tried \subseteq Dropped(q)
            /\ (q.pc = "write" \/ q.result = "ok" \/ q.cause = "write")
                   => tried = Dropped(q)
            /\ q.pc \notin {"delete", "write"} /\ q.result # "ok" /\ q.cause # "write"
                   => tried = {}
            /\ (/\ q.pc \notin {"idle", "read"} /\ q.result \notin {"validation", "notfound"}
                   /\ q.cause # "read"
                /\ q.images = q.pre.store[q.id].images
                /\ \A i \in 1..Len(q.images) : q.images[i][1] = "url")
                   => /\ tried = {}
                      /\ storage = q.pre.storage
                      /\ \A i \in 1..Len(q.up) : q.up[i] = <<"url", q.images[i]>>

\* C5's case: an update that dropped one stored image and kept another has
\* returned success.
C5_Witness ==
    \E r \in Slots : LET q == req[r] IN
        /\ q.op = "update" /\ q.pc = "done" /\ q.result = "ok"
        /\ Len(q.attempted) = 1
        /\ \E i \in 1..Len(q.images) : Includes(q.pre.store[q.id].images, q.images[i])

\* C6: a failed deletion of an old image, not-found or otherwise, never
\* prevents the record update: every remaining deletion is still attempted, the
\* record write is issued with the final reference list, and the call returns
\* success when that write succeeds.
C6_CleanupNeverBlocks ==
    \A r \in Slots : LET q == req[r] IN
        (/\ q.op = "update"
         /\ \E k \in 1..Len(q.attempted) : q.attempted[k][2] # "deleted") =>
            /\ q.pc \in {"delete", "write", "done"}
            /\ q.pc = "delete" => q.di = Len(q.attempted) + 1 /\ q.di <= Len(q.toDelete)
            /\ q.pc \in {"write", "done"} =>
                   /\ Len(q.attempted) = Len(q.toDelete)
                   /\ \A k \in 1..Len(q.toDelete) : q.attempted[k][1] = q.toDelete[k]
            /\ q.pc = "done" =>
                   \/ q.result = "ok" /\ store[q.id].images = Resolved(q.up)
                   \/ q.result = "failed" /\ q.cause = "write"

\* C6's case: the first deletion was rejected, a later one was still attempted
\* and the update returned success.
C6_Witness ==
    \E r \in Slots : LET q == req[r] IN
        /\ q.op = "update" /\ q.pc = "done" /\ q.result = "ok"
        /\ Len(q.attempted) >= 2
        /\ q.attempted[1][2] = "error"
        /\ \E k \in 2..Len(q.attempted) : q.attempted[k][2] = "not-found"

\* C7: addProduct and updateProduct reject a submission of fewer than 1 or more
\* than 5 images with a validation failure before any upload, deletion or
\* record access, so store and storage are unchanged; every persisted record
\* has between 1 and 5 images.
C7_ImageCountEnforced ==
    /\ \A r \in Slots : LET q == req[r] IN
           (Running(q) /\ (Len(q.images) < 1 \/ Len(q.images) > 5)) =>
               /\ q.pc = "done" /\ q.result = "validation"
               /\ q.up = <<>> /\ q.attempted = <<>> /\ q.existing = <<>>
               /\ store = q.pre.store /\ storage = q.pre.storage
    /\ \A d \in DOMAIN store :
           Len(store[d].images) >= 1 /\ Len(store[d].images) <= 5

\* C7's case: a record of 5 images is persisted and a submission of 6 images
\* has been rejected.
C7_Witness ==
    /\ \E d \in DOMAIN store : Len(store[d].images) = 5
    /\ \E r \in Slots :
           /\ Running(req[r]) /\ Len(req[r].images) = 6
           /\ req[r].result = "validation"

----------------------------------------------------------------------------
\* The storefront filter (ProductsPage.filteredProducts). A text is a sequence
\* of characters; "A" and "B" are the upper-case forms of "a" and "b", "I" of
\* "i", "R" of "r".

\* The lower-case form of a character.
LowerChar(c) ==
    CASE c = "A" -> "a"
      [] c = "B" -> "b"
      [] c = "I" -> "i"
      [] c = "R" -> "r"
      [] OTHER -> c

\* Mutant of ToLowerCase: the text unchanged (a case-sensitive comparison).
ToLowerCaseNone(s) == s

\* String.prototype.toLowerCase
ToLowerCase(s) == [k \in 1..Len(s) |-> LowerChar(s[k])]

\* String.prototype.includes: the search text occurs at some offset
StrIncludes(s, search) ==
    \E k \in 0..(Len(s) - Len(search)) : SubSeq(s, k + 1, k + Len(search)) = search

\* Mutant of PriceMatch: a strict comparison with the ceiling.
PriceMatchStrict(product, f) == product.price < f.priceRange[2]

\* const priceMatch = product.price <= filters.priceRange[1]
PriceMatch(product, f) == product.price <= f.priceRange[2]

\* The callback of allProducts.filter(...).
Keeps(product, f) ==
    LET brandMatch == f.brand = <<>>
                      \/ StrIncludes(ToLowerCase(product.brand), ToLowerCase(f.brand))
        priceMatch == PriceMatch(product, f)
        conditionMatch == Cardinality(f.conditions) = 0
                          \/ product.condition \in f.conditions
        processorMatch == f.processor = <<>>
                          \/ StrIncludes(ToLowerCase(product.processor),
                                         ToLowerCase(f.processor))
        ramMatch == f.ram = <<>>
                    \/ StrIncludes(ToLowerCase(product.ram), ToLowerCase(f.ram))
    IN brandMatch /\ priceMatch /\ conditionMatch /\ processorMatch /\ ramMatch

RECURSIVE InsertByPrice(_, _)
InsertByPrice(p, s) ==
    IF s = <<>> THEN <<p>>
    ELSE IF p.price < Head(s).price THEN <<p>> \o s
    ELSE <<Head(s)>> \o InsertByPrice(p, Tail(s))

RECURSIVE FilterSortedByPrice(_, _)
\* Mutant of FilterProducts: the kept products sorted by ascending price.
FilterSortedByPrice(products, f) ==
    IF products = <<>> THEN <<>>
    ELSE IF Keeps(products[Len(products)], f)
         THEN InsertByPrice(products[Len(products)],
                            FilterSortedByPrice(SubSeq(products, 1, Len(products) - 1), f))
         ELSE FilterSortedByPrice(SubSeq(products, 1, Len(products) - 1), f)

RECURSIVE FilterSkipAfterRemoval(_, _)
\* Mutant of FilterProducts: the rejected products are removed from the array
\* while an index walks it, so the product after a removed one is never tested.
FilterSkipAfterRemoval(products, f) ==
    IF products = <<>> THEN <<>>
    ELSE IF Keeps(Head(products), f)
         THEN <<Head(products)>> \o FilterSkipAfterRemoval(Tail(products), f)
         ELSE IF Len(products) = 1 THEN <<>>
         ELSE <<products[2]>>
              \o FilterSkipAfterRemoval(SubSeq(products, 3, Len(products)), f)

RECURSIVE FilterProducts(_, _)
\* allProducts.filter(product => ...): a new array of the products the callback
\* keeps, visited in index order
FilterProducts(products, f) ==
    IF products = <<>> THEN <<>>
    ELSE IF Keeps(Head(products), f)
         THEN <<Head(products)>> \o FilterProducts(Tail(products), f)
         ELSE FilterProducts(Tail(products), f)

\* The texts of at most n characters over the characters C.
Texts(C, n) == UNION {[1..k -> C] : k \in 0..n}

BrandChars == {"a", "A", "b"}
Conditions == {"New", "Used", "Refurbished"}

\* The filter states: any brand text, any ceiling, any set of conditions, and
\* for processor and RAM no filter, a filter in either case, or a character
\* the products lack.
BrandFilters == Texts(BrandChars, MaxStr)
FilterStates ==
    [brand : BrandFilters,
     priceRange : {0} \X (0..MaxPrice),
     conditions : SUBSET Conditions,
     processor : {<<>>, <<"i">>, <<"x">>},
     ram : {<<>>, <<"R">>}]

\* The products. A list of one product has any brand text, any price and any
\* condition; the longer lists are made of new products of the lowest or the
\* highest price whose brands are "Ab" or "bb".
ProductsOf(brands, prices) ==
    [brand : brands, price : prices, condition : Conditions,
     processor : {<<"I">>}, ram : {<<"r">>, <<"x">>}]
Brands == Texts(BrandChars, MaxStr) \ {<<>>}
ListBrands == {<<"A", "b">>, <<"b", "b">>}
ListProducts ==
    {p \in ProductsOf(ListBrands, {1, MaxPrice}) : p.condition = "New" /\ p.ram = <<"r">>}

\* A product list as getProductsAction returns it: the records with their
\* document ids, here the positions.
WithIds(s) == [i \in 1..Len(s) |->
                 [id |-> i, brand |-> s[i].brand, price |-> s[i].price,
                  condition |-> s[i].condition, processor |-> s[i].processor,
                  ram |-> s[i].ram]]

ProductLists ==
    {WithIds(s) : s \in [1..1 -> ProductsOf(Brands, 1..MaxPrice)]
                          \cup UNION {[1..n -> ListProducts] : n \in {0} \cup 2..MaxProducts}}

\* No admin call runs in the storefront behaviours.
AdminIdle ==
    /\ store = <<>>
    /\ storage = <<>>
    /\ nextDoc = 1
    /\ nextObj = 1
    /\ calls = 0
    /\ req = [r \in Slots |-> Idle]

FilterInit ==
    /\ AdminIdle
    /\ CredIdle
    /\ FormIdle
    /\ allProducts \in ProductLists
    /\ filters \in FilterStates
    /\ loading = FALSE
    /\ maxPrice = DefaultMaxPrice
    /\ filteredProducts = <<>>
    /\ rendered = FALSE
    /\ pageLog = [last |-> "none", changed |-> FALSE]

\* A render: useMemo computes filteredProducts from filters and allProducts.
Render ==
    /\ ~rendered
    /\ filteredProducts' = FilterProducts(allProducts, filters)
    /\ rendered' = TRUE
    /\ UNCHANGED <<allProducts, filters, maxPrice, loading, pageLog, adminVars, credVars, formVars>>

SpecFilter == FilterInit /\ [][Render]_vars

----------------------------------------------------------------------------
\* Properties of the filter, under SpecFilter.

\* The text f occurs in the text s, letter case disregarded.
ContainsCI(s, f) ==
    \E k \in 0..(Len(s) - Len(f)) :
        \A j \in 1..Len(f) : LowerChar(s[k + j]) = LowerChar(f[j])

\* The five predicates a listed product has to satisfy.
Admitted(p, f) ==
    /\ f.brand = <<>> \/ ContainsCI(p.brand, f.brand)
    /\ p.price <= f.priceRange[2]
    /\ f.conditions = {} \/ p.condition \in f.conditions
    /\ f.processor = <<>> \/ ContainsCI(p.processor, f.processor)
    /\ f.ram = <<>> \/ ContainsCI(p.ram, f.ram)

\* C8: a product of the list appears in the filtered list if and only if all
\* five predicates hold, nothing else appears, and a brand filter that matches
\* no product yields the empty list whatever the other filters are.
C8_FilteredIffAllPredicates ==
    rendered =>
        /\ \A i \in 1..Len(allProducts) :
               (\E j \in 1..Len(filteredProducts) : filteredProducts[j] = allProducts[i])
                   <=> Admitted(allProducts[i], filters)
        /\ \A j \in 1..Len(filteredProducts) :
               \E i \in 1..Len(allProducts) : filteredProducts[j] = allProducts[i]
        /\ (/\ filters.brand # <<>>
            /\ \A i \in 1..Len(allProducts) :
                   ~ContainsCI(allProducts[i].brand, filters.brand))
               => filteredProducts = <<>>

\* C8's case: three products, one of them within the ceiling and passing the
\* condition, processor and RAM filters, and a brand filter no product matches:
\* the filtered list is empty.
C8_Witness ==
    /\ rendered
    /\ Len(allProducts) = 3
    /\ filters.brand # <<>>
    /\ \A i \in 1..3 : ~ContainsCI(allProducts[i].brand, filters.brand)
    /\ \E i \in 1..3 : Admitted(allProducts[i], [filters EXCEPT !.brand = <<>>])
    /\ \E i \in 1..3 : allProducts[i].price > filters.priceRange[2]
    /\ filteredProducts = <<>>

\* C9: the filtered list is a subsequence of the product list: its entries are
\* entries of the list, each taken at most once, in the order of the list.
C9_FilteredIsSubsequence ==
    rendered =>
        \E at \in [1..Len(filteredProducts) -> 1..Len(allProducts)] :
            /\ \A j \in 1..Len(filteredProducts) : filteredProducts[j] = allProducts[at[j]]
            /\ \A j \in 1..Len(filteredProducts) :
                   \A k \in 1..Len(filteredProducts) : j < k => at[j] < at[k]

\* C9's case: the first and third of three products are kept, the first being
\* the dearer one, and the second is dropped.
C9_Witness ==
    /\ rendered
    /\ Len(allProducts) = 3
    /\ filteredProducts = <<allProducts[1], allProducts[3]>>
    /\ allProducts[1].price > allProducts[3].price

\* C10: with empty brand, processor and RAM filters, an empty condition set and
\* the ceiling equal to the maximum price of the list, the filtered list is the
\* list.
C10_IdentityWhenNothingBinds ==
    (/\ rendered
     /\ filters.brand = <<>> /\ filters.processor = <<>> /\ filters.ram = <<>>
     /\ filters.conditions = {}
     /\ \A i \in 1..Len(allProducts) : allProducts[i].price <= filters.priceRange[2]
     /\ allProducts # <<>> =>
            \E i \in 1..Len(allProducts) : allProducts[i].price = filters.priceRange[2])
        => filteredProducts = allProducts

\* C10's case: products of different prices, no filter set, the ceiling at the
\* highest price.
C10_Witness ==
    /\ rendered
    /\ Len(allProducts) >= 2
    /\ \E i, j \in 1..Len(allProducts) : allProducts[i].price < allProducts[j].price
    /\ filters.brand = <<>> /\ filters.processor = <<>> /\ filters.ram = <<>>
    /\ filters.conditions = {}
    /\ \A i \in 1..Len(allProducts) : allProducts[i].price <= filters.priceRange[2]
    /\ \E i \in 1..Len(allProducts) : allProducts[i].price = filters.priceRange[2]
    /\ filteredProducts = allProducts

\* C11: filtering is idempotent: the filter applied, with the same filter
\* state, to the list it has produced yields that list again.
C11_FilterIdempotent ==
    rendered => FilterProducts(filteredProducts, filters) = filteredProducts

\* C11's case: two adjacent products above the ceiling are dropped and the
\* product after them is kept.
C11_Witness ==
    /\ rendered
    /\ Len(allProducts) = 3
    /\ allProducts[1].price > filters.priceRange[2]
    /\ allProducts[2].price > filters.priceRange[2]
    /\ filteredProducts = <<allProducts[3]>>
    /\ FilterProducts(filteredProducts, filters) = <<allProducts[3]>>

----------------------------------------------------------------------------
\* The storefront page (ProductsPage): its first render, the product load of
\* its effect, the filter changes and the reset. Every state update is
\* followed by a render, which recomputes filteredProducts.

\* Math.max(...products.map(p => p.price)), for a list that is not empty
MaxOf(products) ==
    CHOOSE x \in {products[i].price : i \in 1..Len(products)} :
        \A i \in 1..Len(products) : products[i].price <= x

\* The lists getProductsAction resolves to (the empty list also when the query
\* has failed).
LoadedLists == {WithIds(s) : s \in UNION {[1..n -> ListProducts] : n \in 0..MaxLoaded}}

\* The changes the filter UI reports: onFilterChange(filterType, value).
FilterChanges ==
    ({"brand"} \X BrandFilters)
    \cup ({"priceRange"} \X ({0} \X (0..MaxPrice)))
    \cup ({"conditions"} \X {{}, {"Used"}, {"New", "Used"}})
    \cup ({"processor"} \X {<<>>, <<"x">>})
    \cup ({"ram"} \X {<<>>, <<"R">>})

\* fetchProducts, from the resolution of getProductsAction on: the list, the
\* maximum and the ceiling are set, the other filter fields are kept
\* (setFilters(prev => ...)), and the page renders.
FetchProducts(products) ==
    /\ rendered /\ loading
    /\ LET newMaxPrice == IF Len(products) > 0 THEN MaxOf(products) ELSE DefaultMaxPrice IN
       /\ allProducts' = products
       /\ maxPrice' = newMaxPrice
       /\ filters' = [filters EXCEPT !.priceRange = <<0, newMaxPrice>>]
    /\ loading' = FALSE
    /\ filteredProducts' = FilterProducts(allProducts', filters')
    /\ pageLog' = [last |-> "load", changed |-> FALSE]
    /\ UNCHANGED <<rendered, adminVars, credVars, formVars>>

\* handleFilterChange(filterType, value)
HandleFilterChange(filterType, value) ==
    /\ rendered
    /\ filters' = [filters EXCEPT ![filterType] = value]
    /\ filteredProducts' = FilterProducts(allProducts, filters')
    /\ pageLog' = [last |-> "change", changed |-> TRUE]
    /\ UNCHANGED <<allProducts, maxPrice, loading, rendered, adminVars, credVars, formVars>>

\* Mutant of HandleResetFilters: the ceiling reset to the initial constant.
HandleResetFiltersHardcoded ==
    /\ rendered
    /\ filters' = [brand |-> <<>>, priceRange |-> <<0, DefaultMaxPrice>>, conditions |-> {},
                   processor |-> <<>>, ram |-> <<>>]
    /\ filteredProducts' = FilterProducts(allProducts, filters')
    /\ pageLog' = [pageLog EXCEPT !.last = "reset"]
    /\ UNCHANGED <<allProducts, maxPrice, loading, rendered, adminVars, credVars, formVars>>

\* handleResetFilters()
HandleResetFilters ==
    /\ rendered
    /\ filters' = [brand |-> <<>>, priceRange |-> <<0, maxPrice>>, conditions |-> {},
                   processor |-> <<>>, ram |-> <<>>]
    /\ filteredProducts' = FilterProducts(allProducts, filters')
    /\ pageLog' = [pageLog EXCEPT !.last = "reset"]
    /\ UNCHANGED <<allProducts, maxPrice, loading, rendered, adminVars, credVars, formVars>>

PageInit == AdminIdle /\ CredIdle /\ PageIdle /\ FormIdle

PageNext ==
    \/ Render
    \/ \E products \in LoadedLists : FetchProducts(products)
    \/ \E c \in FilterChanges : HandleFilterChange(c[1], c[2])
    \/ HandleResetFilters

SpecPage == PageInit /\ [][PageNext]_vars

----------------------------------------------------------------------------
\* Properties of the page, under SpecPage.

\* The maximum price over a list, 0 for the empty list.
MaxPriceOver(products) == IF products = <<>> THEN 0 ELSE MaxOf(products)

\* The step in which the product load completes.
LoadCompletes == loading /\ ~loading'

\* The filter fields other than the ceiling are left as they were.
OtherFieldsKept ==
    /\ filters'.brand = filters.brand
    /\ filters'.conditions = filters.conditions
    /\ filters'.processor = filters.processor
    /\ filters'.ram = filters.ram

\* When the load completes the ceiling and the maximum offered to the filter
\* UI are the maximum price of a list that is not empty and DefaultMaxPrice for
\* the empty list, and the other filter fields are kept.
LoadSetsCeilingOrDefault ==
    [][LoadCompletes =>
          LET ceiling == IF allProducts' = <<>> THEN DefaultMaxPrice
                         ELSE MaxOf(allProducts') IN
          /\ maxPrice' = ceiling
          /\ filters'.priceRange = <<0, ceiling>>
          /\ OtherFieldsKept]_vars

\* C12: when the product load completes, the ceiling of the filter state and
\* the maximum offered to the filter UI are the maximum price over the loaded
\* products, 0 when the loaded list is empty, and the other filter fields, as
\* the user set them before, are kept.
C12_LoadSetsCeiling ==
    [][LoadCompletes =>
          /\ maxPrice' = MaxPriceOver(allProducts')
          /\ filters'.priceRange = <<0, MaxPriceOver(allProducts')>>
          /\ OtherFieldsKept]_vars

\* C13: after the load, whatever filter changes came before, a reset leaves
\* the brand, processor and RAM filters and the condition set empty and the
\* ceiling at the maximum computed at the load (the highest price of a loaded
\* list that is not empty), and the visible list is the loaded list.
C13_ResetRestoresLoadedList ==
    (pageLog.last = "reset" /\ ~loading) =>
        /\ filters.brand = <<>> /\ filters.processor = <<>> /\ filters.ram = <<>>
        /\ filters.conditions = {}
        /\ filters.priceRange = <<0, maxPrice>>
        /\ allProducts # <<>> => filters.priceRange[2] = MaxOf(allProducts)
        /\ filteredProducts = allProducts

\* C13's case: products of different prices are loaded, a filter has been
\* changed since, and the reset has shown all of them again.
C13_Witness ==
    /\ pageLog = [last |-> "reset", changed |-> TRUE]
    /\ ~loading
    /\ Len(allProducts) >= 2
    /\ \E i, j \in 1..Len(allProducts) : allProducts[i].price < allProducts[j].price
    /\ filters.priceRange[2] = MaxOf(allProducts)
    /\ filteredProducts = allProducts

----------------------------------------------------------------------------
\* The rotation of the admin credentials: updateCredentials over the file
\* data/auth.json, one call at a time, one action per file operation.

\* credentialsSchema: newPassword .min(6)
MinPasswordLength == 6

\* String.prototype.length of the strings submitted
Length(s) ==
    CASE s = "" -> 0
      [] s = "abc" -> 3
      [] s = "root" -> 4
      [] s = "admin" -> 5
      [] s = "secret1" -> 7
      [] s = "letmein" -> 7
      [] s = "password" -> 8

\* The strings a caller submits as passwords and as usernames.
PasswordInputs == {"", "abc", "password", "secret1"}
UsernameInputs == {"", "admin", "root"}

\* Mutant of CredentialsSchemaOk: the new password has to be longer than the
\* minimum.
CredentialsSchemaOkStrict(currentPassword, newUsername, newPassword) ==
    /\ Length(currentPassword) >= 1
    /\ Length(newUsername) >= 1
    /\ Length(newPassword) > MinPasswordLength + 1

\* credentialsSchema.safeParse(data).success
CredentialsSchemaOk(currentPassword, newUsername, newPassword) ==
    /\ Length(currentPassword) >= 1
    /\ Length(newUsername) >= 1
    /\ Length(newPassword) >= MinPasswordLength

\* The pair a credential store holds: the one of the file, the placeholder
\* pair of ensureAuthFile when the file is absent.
Stored(file) == IF file = {} THEN DefaultCreds ELSE CHOOSE c \in file : TRUE

\* updateCredentials(data), up to its first await: safeParse.
UpdateCredentials(currentPassword, newUsername, newPassword) ==
    /\ cred.pc \in {"idle", "done"}
    /\ credCalls < MaxCredCalls
    /\ credCalls' = credCalls + 1
    /\ LET q == [NoCredCall EXCEPT !.currentPassword = currentPassword,
                                   !.newUsername = newUsername,
                                   !.newPassword = newPassword,
                                   !.pre = authFile, !.seen = rotation] IN
       cred' = IF CredentialsSchemaOk(currentPassword, newUsername, newPassword)
               THEN [q EXCEPT !.pc = "ensure"]
               ELSE [q EXCEPT !.pc = "done", !.result = "validation"]
    /\ UNCHANGED <<authFile, rotation, credReq, adminVars, pageVars, formVars>>

\* ensureAuthFile() in getAuthCredentials: fs.access finds the file, or mkdir
\* and writeFile create it with the placeholder pair, or they reject (~ok) and
\* the catch block of updateCredentials returns the generic failure.
EnsureAuthFile(ok) ==
    /\ cred.pc = "ensure"
    /\ authFile # {} => ok
    /\ IF ok
       THEN /\ authFile' = {Stored(authFile)}
            /\ cred' = [cred EXCEPT !.pc = "read"]
       ELSE /\ authFile' = authFile
            /\ cred' = [cred EXCEPT !.pc = "done", !.result = "failed"]
    /\ UNCHANGED <<credCalls, rotation, credReq, adminVars, pageVars, formVars>>

\* fs.readFile and JSON.parse in getAuthCredentials (on an error the catch
\* block falls back to the placeholder pair), then the comparison of
\* updateCredentials with the pair returned.
ReadAuthFile(ok) ==
    /\ cred.pc = "read"
    /\ LET currentCreds == IF ok THEN Stored(authFile) ELSE DefaultCreds
           q == [cred EXCEPT !.currentCreds = currentCreds,
                             !.read = IF ok THEN "file" ELSE "fallback"] IN
       cred' = IF cred.currentPassword # currentCreds.password
               THEN [q EXCEPT !.pc = "done", !.result = "authfail"]
               ELSE [q EXCEPT !.pc = "save"]
    /\ UNCHANGED <<authFile, credCalls, rotation, credReq, adminVars, pageVars, formVars>>

\* Mutant of SaveAuthCredentials: the username and the password are written one
\* after the other.
SaveAuthCredentialsFieldwise(ok) ==
    /\ cred.pc = "save"
    /\ IF ~ok
       THEN /\ cred' = [cred EXCEPT !.pc = "done", !.result = "failed"]
            /\ UNCHANGED <<authFile, rotation>>
       ELSE IF cred.writes = 0
       THEN /\ authFile' = {[Stored(authFile) EXCEPT !.username = cred.newUsername]}
            /\ cred' = [cred EXCEPT !.writes = 1]
            /\ UNCHANGED rotation
       ELSE /\ authFile' = {[username |-> cred.newUsername, password |-> cred.newPassword]}
            /\ cred' = [cred EXCEPT !.writes = 2, !.pc = "done", !.result = "ok"]
            /\ rotation' = {[old |-> Stored(cred.pre).password,
                             presented |-> cred.currentPassword,
                             new |-> Stored(authFile')]}
    /\ UNCHANGED <<credCalls, credReq, adminVars, pageVars, formVars>>

\* saveAuthCredentials(newCreds): ensureAuthFile finds the file that
\* getAuthCredentials ensured, and fs.writeFile replaces its content by the
\* new pair and updateCredentials returns success, or rejects and the catch
\* block returns the generic failure.
SaveAuthCredentials(ok) ==
    /\ cred.pc = "save"
    /\ IF ok
       THEN /\ authFile' = {[username |-> cred.newUsername, password |-> cred.newPassword]}
            /\ cred' = [cred EXCEPT !.writes = @ + 1, !.pc = "done", !.result = "ok"]
            /\ rotation' = {[old |-> Stored(cred.pre).password,
                             presented |-> cred.currentPassword,
                             new |-> Stored(authFile')]}
       ELSE /\ cred' = [cred EXCEPT !.pc = "done", !.result = "failed"]
            /\ UNCHANGED <<authFile, rotation>>
    /\ UNCHANGED <<credCalls, credReq, adminVars, pageVars, formVars>>

CredInit == AdminIdle /\ PageIdle /\ CredIdle /\ FormIdle

CredNext ==
    \/ \E currentPassword \in PasswordInputs, newUsername \in UsernameInputs,
           newPassword \in PasswordInputs :
           UpdateCredentials(currentPassword, newUsername, newPassword)
    \/ \E ok \in BOOLEAN : EnsureAuthFile(ok)
    \/ \E ok \in BOOLEAN : ReadAuthFile(ok)
    \/ \E ok \in BOOLEAN : SaveAuthCredentials(ok)

SpecCreds == CredInit /\ [][CredNext]_vars

----------------------------------------------------------------------------
\* Properties of the credential rotation, under SpecCreds.

\* The request passes credentialsSchema.
ValidRequest(q) ==
    /\ q.currentPassword # "" /\ q.newUsername # ""
    /\ Length(q.newPassword) >= 6

\* The pair the request asks for.
Requested(q) == [username |-> q.newUsername, password |-> q.newPassword]

\* The last successful rotation among those of the set rot (at most one).
TheRotation(rot) == CHOOSE x \in rot : TRUE

\* C14: a valid updateCredentials request whose current password differs from
\* the stored password is rejected with the authentication failure (with the
\* generic failure when the credential file could not be created), and the
\* stored username and password stay as they were.
C14_WrongPasswordRejected ==
    (/\ cred.pc # "idle" /\ ValidRequest(cred)
     /\ cred.currentPassword # Stored(cred.pre).password) =>
        /\ Stored(authFile) = Stored(cred.pre)
        /\ cred.pc = "done" => cred.result \in {"authfail", "failed"}

\* C15: a successful rotation has made exactly one write, which put the
\* requested username and password in place together: until the call has
\* succeeded the store holds the pair it held at the call and the call has
\* written nothing. No product record and no stored image changes.
C15_RotationIsOneWrite ==
    /\ cred.pc # "idle" =>
           IF cred.result = "ok"
           THEN cred.writes = 1 /\ authFile = {Requested(cred)}
           ELSE cred.writes = 0 /\ Stored(authFile) = Stored(cred.pre)
    /\ store = <<>> /\ storage = <<>>

\* C15's case: a rotation has replaced a pair of the file by a pair of another
\* username and another password.
C15_Witness ==
    /\ cred.pc = "done" /\ cred.result = "ok"
    /\ cred.pre # {}
    /\ Stored(cred.pre).username # Stored(authFile).username
    /\ Stored(cred.pre).password # Stored(authFile).password
    /\ authFile = {Requested(cred)}

C17_OldPasswordRejected ==
    (/\ cred.pc = "done" /\ ValidRequest(cred)
     /\ cred.seen # {}
     /\ cred.currentPassword = TheRotation(cred.seen).old
     /\ TheRotation(cred.seen).old # TheRotation(cred.seen).new.password) =>
        /\ cred.result = "authfail"
        /\ Stored(authFile) = TheRotation(cred.seen).new

\* C18: the credential store holds one pair, the placeholder pair until the
\* first successful rotation and the pair of the most recent successful
\* rotation afterwards; reading it yields that pair; the pair has only been
\* changed by a rotation that presented the password stored at that time.
C18_OneStoredPair ==
    /\ Cardinality(authFile) <= 1
    /\ Stored(authFile) = IF rotation = {} THEN DefaultCreds
                           ELSE TheRotation(rotation).new
    /\ cred.read # "none" => cred.currentCreds = Stored(cred.pre)
    /\ rotation # {} => TheRotation(rotation).presented = TheRotation(rotation).old

----------------------------------------------------------------------------
\* Two updateProduct calls on one product, running in the two slots in any
\* interleaving of their awaits.

\* The product both calls update, as addProduct has created it from two image
\* payloads.
RaceId == 1
RaceStore ==
    (RaceId :> [data |-> [name |-> "n0", featured |-> FALSE],
                images |-> <<UrlOf(1), UrlOf(2)>>, createdAt |-> 1])
RaceStorage == (1 :> 1) @@ (2 :> 2)

\* The submissions of the two calls: valid fields with and without the optional
\* flag, and one or two images among the stored ones and a new payload.
RaceFields == {d \in Fields : d.name # ""}
RaceSubmissions ==
    UNION {[1..n -> {UrlOf(1), UrlOf(2), <<"png", 1>>}] : n \in 1..MaxRaceLen}

RaceInit ==
    /\ PageIdle
    /\ CredIdle
    /\ FormIdle
    /\ store = RaceStore
    /\ storage = RaceStorage
    /\ nextDoc = 2
    /\ nextObj = 3
    /\ calls = 0
    /\ req = [r \in Slots |-> Idle]

RaceNext ==
    /\ \E r \in Slots :
           \/ /\ Free(r)
              /\ \E data \in RaceFields, images \in RaceSubmissions :
                     CallUpdate(r, RaceId, data, images)
           \/ ReadFails(r)
           \/ ReadDone(r)
           \/ \E i \in 1..Len(req[r].up) : UploadDone(r, i)
           \/ \E i \in 1..Len(req[r].up), stored \in BOOLEAN : UploadFails(r, i, stored)
           \/ \E outcome \in {"deleted", "not-found", "error"} : DeleteStep(r, outcome)
           \/ WriteFails(r)
           \/ WriteDone(r)
    /\ UNCHANGED <<pageVars, credVars, formVars>>

SpecRace == RaceInit /\ [][RaceNext]_vars

----------------------------------------------------------------------------
\* Properties of the concurrent updates, under SpecRace.

\* Both calls were made before either wrote the record, and both succeeded.
BothSucceededConcurrently ==
    \A r \in Slots :
        /\ req[r].op = "update" /\ req[r].pc = "done" /\ req[r].result = "ok"
        /\ req[r].pre.store = RaceStore

\* The slot of the call whose record write came last.
LastWriter == CHOOSE r \in Slots : \A s \in Slots : req[s].wseq <= req[r].wseq

\* After two concurrent successful updates the record holds the image list of
\* the last writer and, for every field the last writer submitted, the value
\* it submitted.
LastWriterWinsPerField ==
    BothSucceededConcurrently =>
        /\ store[RaceId].images = req[LastWriter].final
        /\ \A k \in DOMAIN req[LastWriter].data :
               store[RaceId].data[k] = req[LastWriter].data[k]

\* C19: after two concurrent successful updateProduct calls on one product the
\* record holds the final image list and the submitted fields of the call that
\* wrote last, and nothing of the other call's submission: a field the last
\* writer did not submit is as it was before the two calls.
C19_LastWriterWins ==
    BothSucceededConcurrently =>
        /\ store[RaceId].images = req[LastWriter].final
        /\ store[RaceId].data = req[LastWriter].data @@ RaceStore[RaceId].data

----------------------------------------------------------------------------
\* Properties of deleteProduct, under Spec.

\* getProductsAction(): the records with their ids, the latest created first.
GetProductsAction ==
    LET ids == DOMAIN store IN
    [k \in 1..Cardinality(ids) |->
        LET d == CHOOSE d \in ids :
                     Cardinality({e \in ids : store[e].createdAt > store[d].createdAt}) = k - 1
        IN [id |-> d, data |-> store[d].data, images |-> store[d].images,
            createdAt |-> store[d].createdAt]]

\* C20: deleteProduct on an existing product attempts the deletion of every
\* image of the record, in the order of the record, whatever the outcome of
\* the deletions before, and then issues the removal of the record; it fails
\* only if the read or the removal of the record fails, and after a successful
\* call the product is not in the product list.
C20_DeleteCascades ==
    \A r \in Slots : LET q == req[r] IN
        (q.op = "delete" /\ q.id \in DOMAIN q.pre.store) =>
            LET images == q.pre.store[q.id].images IN
            /\ \A k \in 1..Len(q.attempted) :
                   k <= Len(images) /\ q.attempted[k][1] = images[k]
            /\ q.pc = "delete" => q.di = Len(q.attempted) + 1 /\ q.di <= Len(images)
            /\ (q.pc = "write" \/ q.result = "ok" \/ q.cause = "write")
                   => Len(q.attempted) = Len(images)
            /\ q.pc = "done" =>
                   \/ q.result = "ok"
                   \/ q.result = "failed" /\ q.cause \in {"read", "write"}
            /\ q.result = "ok" =>
                   /\ q.id \notin DOMAIN store
                   /\ \A k \in 1..Len(GetProductsAction) : GetProductsAction[k].id # q.id
            /\ q.result # "ok" => store = q.pre.store

\* C20's case: the deletion of the first image was rejected, the second image
\* was deleted all the same, and the record is gone.
C20_Witness ==
    \E r \in Slots : LET q == req[r] IN
        /\ q.op = "delete" /\ q.pc = "done" /\ q.result = "ok"
        /\ Len(q.attempted) >= 2
        /\ q.attempted[1][2] = "error"
        /\ q.attempted[2][2] = "deleted"
        /\ ObjectOf(q.attempted[2][1]) \notin DOMAIN storage
        /\ q.id \notin DOMAIN store

----------------------------------------------------------------------------
\* Properties of the calls on a missing record, under Spec.

\* The call names a product that had no record when the call was made.
OnMissingRecord(q) == q.op \in {"update", "delete"} /\ q.id \notin DOMAIN q.pre.store

\* The call has uploaded nothing, attempted no deletion and written nothing.
NoEffect(q) ==
    /\ q.up = <<>> /\ q.attempted = <<>>
    /\ store = q.pre.store /\ storage = q.pre.storage

\* C21 as stated: updateProduct and deleteProduct called with the identifier of
\* no record return the not-found failure and have no effect.
C21_MissingRecordIsNotFound ==
    \A r \in Slots : LET q == req[r] IN
        OnMissingRecord(q) =>
            /\ NoEffect(q)
            /\ q.pc = "done" => q.result = "notfound"

\* C21, amended: updateProduct and deleteProduct called with the identifier of
\* no record have no effect on store and storage, with or without inline
\* payloads in the submission; they return the not-found failure, unless the
\* update submission fails productSchema (validation failure, before the
\* lookup) or the lookup itself fails (generic failure).
C21_MissingRecordHasNoEffect ==
    \A r \in Slots : LET q == req[r] IN
        OnMissingRecord(q) =>
            /\ NoEffect(q)
            /\ q.pc = "done" =>
                   \/ q.result = "notfound"
                   \/ q.op = "update" /\ q.result = "validation"
                       /\ ~SchemaOk(q.data, q.images)
                   \/ q.result = "failed" /\ q.cause = "read"
            /\ (q.pc = "done" /\ q.result = "validation") => ~SchemaOk(q.data, q.images)

\* C21's case: an update of a missing record whose valid submission holds an
\* inline payload has returned not-found, beside a record that exists.
C21_Witness ==
    \E r \in Slots : LET q == req[r] IN
        /\ q.op = "update" /\ q.pc = "done" /\ q.result = "notfound"
        /\ q.id \notin DOMAIN q.pre.store
        /\ DOMAIN store # {}
        /\ SchemaOk(q.data, q.images)
        /\ \E i \in 1..Len(q.images) : MatchesDataUri(q.images[i])
        /\ storage = q.pre.storage

----------------------------------------------------------------------------
\* Image references and stored objects under concurrent calls, under SpecRace.

\* Every hosted image reference of every persisted record names an object that
\* is in storage.
ReferencesResolve ==
    \A d \in DOMAIN store : \A i \in 1..Len(store[d].images) :
        store[d].images[i][1] = "url" => ObjectOf(store[d].images[i]) \in DOMAIN storage

\* No call is in flight.
AllFinished == \A r \in Slots : req[r].pc \in {"none", "done"}

\* The same for every finished state, failed calls included.
ReferencesResolveWhenFinished == AllFinished => ReferencesResolve

\* C22: once two concurrent updateProduct calls on one product have both
\* returned success, every image reference of the persisted record still
\* names an object in storage: no call has deleted an image that the final
\* record references.
C22_NoReferencedImageDeleted == BothSucceededConcurrently => ReferencesResolve

----------------------------------------------------------------------------
\* Concurrent updateCredentials calls: one call in each slot, every
\* interleaving of their awaits over the one credential file.

\* The strings the concurrent callers submit as passwords and as usernames.
RacePasswordInputs == {"abc", "password", "secret1", "letmein"}
RaceUsernameInputs == {"admin", "root"}

\* updateCredentials(data) in slot r, up to its first await: safeParse.
UpdateCredentialsIn(r, currentPassword, newUsername, newPassword) ==
    /\ credReq[r].pc = "idle"
    /\ LET q == [NoCredCall EXCEPT !.currentPassword = currentPassword,
                                   !.newUsername = newUsername,
                                   !.newPassword = newPassword,
                                   !.pre = authFile] IN
       credReq' = [credReq EXCEPT ![r] =
                      IF CredentialsSchemaOk(currentPassword, newUsername, newPassword)
                      THEN [q EXCEPT !.pc = "ensure"]
                      ELSE [q EXCEPT !.pc = "done", !.result = "validation"]]
    /\ UNCHANGED <<authFile, cred, credCalls, rotation, adminVars, pageVars, formVars>>

\* ensureAuthFile() in getAuthCredentials, for the call in slot r.
EnsureAuthFileIn(r, ok) ==
    /\ credReq[r].pc = "ensure"
    /\ authFile # {} => ok
    /\ IF ok
       THEN /\ authFile' = {Stored(authFile)}
            /\ credReq' = [credReq EXCEPT ![r].pc = "read"]
       ELSE /\ authFile' = authFile
            /\ credReq' = [credReq EXCEPT ![r].pc = "done", ![r].result = "failed"]
    /\ UNCHANGED <<cred, credCalls, rotation, adminVars, pageVars, formVars>>

\* fs.readFile and JSON.parse in getAuthCredentials and the comparison of
\* updateCredentials with the pair returned, for the call in slot r.
ReadAuthFileIn(r, ok) ==
    /\ credReq[r].pc = "read"
    /\ LET currentCreds == IF ok THEN Stored(authFile) ELSE DefaultCreds
           q == [credReq[r] EXCEPT !.currentCreds = currentCreds,
                                   !.read = IF ok THEN "file" ELSE "fallback"] IN
       credReq' = [credReq EXCEPT ![r] =
                      IF q.currentPassword # currentCreds.password
                      THEN [q EXCEPT !.pc = "done", !.result = "authfail"]
                      ELSE [q EXCEPT !.pc = "save"]]
    /\ UNCHANGED <<authFile, cred, credCalls, rotation, adminVars, pageVars, formVars>>

\* saveAuthCredentials(newCreds) for the call in slot r: fs.writeFile replaces
\* the content of the file, whatever it holds by now, and the call returns
\* success; or it rejects and the call returns the generic failure. The call
\* keeps in seen the content its write replaced.
SaveAuthCredentialsIn(r, ok) ==
    /\ credReq[r].pc = "save"
    /\ LET q == credReq[r] IN
       IF ok
       THEN /\ authFile' = {[username |-> q.newUsername, password |-> q.newPassword]}
            /\ credReq' = [credReq EXCEPT ![r] =
                              [q EXCEPT !.writes = @ + 1, !.pc = "done", !.result = "ok",
                                        !.seen = authFile]]
       ELSE /\ credReq' = [credReq EXCEPT ![r].pc = "done", ![r].result = "failed"]
            /\ UNCHANGED authFile
    /\ UNCHANGED <<cred, credCalls, rotation, adminVars, pageVars, formVars>>

CredRaceInit == AdminIdle /\ PageIdle /\ CredIdle /\ FormIdle

CredRaceNext ==
    \/ \E r \in Slots, currentPassword \in RacePasswordInputs,
           newUsername \in RaceUsernameInputs, newPassword \in RacePasswordInputs :
           UpdateCredentialsIn(r, currentPassword, newUsername, newPassword)
    \/ \E r \in Slots, ok \in BOOLEAN : EnsureAuthFileIn(r, ok)
    \/ \E r \in Slots, ok \in BOOLEAN : ReadAuthFileIn(r, ok)
    \/ \E r \in Slots, ok \in BOOLEAN : SaveAuthCredentialsIn(r, ok)

SpecCredRace == CredRaceInit /\ [][CredRaceNext]_vars

\* The call in slot r has returned success.
Rotated(r) == credReq[r].pc = "done" /\ credReq[r].result = "ok"

\* The password the file held when the write of the successful call in slot r
\* took effect.
PasswordReplacedBy(r) == Stored(credReq[r].seen).password

\* Both calls presented one current password and asked for different new
\* passwords, each of them a change of the password presented.
SamePasswordDifferentNew ==
    /\ credReq[1].currentPassword = credReq[2].currentPassword
    /\ credReq[1].newPassword # credReq[2].newPassword
    /\ \A r \in Slots : credReq[r].newPassword # credReq[r].currentPassword

\* C23: of two concurrent updateCredentials calls, one succeeds only if the
\* password it presented is the stored password at the moment its own write
\* takes effect; two calls that present the same password and ask for
\* different new passwords do not both succeed.
C23_ConcurrentRotationsExclude ==
    /\ \A r \in Slots : Rotated(r) => credReq[r].currentPassword = PasswordReplacedBy(r)
    /\ SamePasswordDifferentNew => ~(Rotated(1) /\ Rotated(2))

----------------------------------------------------------------------------
\* Uploaded objects and the records that reference them, under Spec.

\* Some persisted record references the object named o.
Referenced(o) ==
    \E d \in DOMAIN store : \E i \in 1..Len(store[d].images) :
        store[d].images[i] = UrlOf(o)

\* C24: when an addProduct or updateProduct call has returned, with success or
\* with a failure, every object the call uploaded to storage is referenced by
\* some persisted record: a failed call leaves no orphaned upload.
C24_NoOrphanedUpload ==
    \A r \in Slots : LET q == req[r] IN
        (Running(q) /\ q.pc = "done") =>
            \A o \in UploadedBy(q) : Referenced(o)

----------------------------------------------------------------------------
\* A deleteProduct call and updateProduct calls on one product, running
\* concurrently from the state of SpecRace: every interleaving of their
\* awaits.

DeleteRaceNext ==
    /\ \E r \in Slots :
           \/ /\ Free(r)
              /\ CallDelete(r, RaceId)
           \/ /\ Free(r)
              /\ \E data \in RaceFields, images \in RaceSubmissions :
                     CallUpdate(r, RaceId, data, images)
           \/ ReadFails(r)
           \/ ReadDone(r)
           \/ \E i \in 1..Len(req[r].up) : UploadDone(r, i)
           \/ \E i \in 1..Len(req[r].up), stored \in BOOLEAN : UploadFails(r, i, stored)
           \/ \E outcome \in {"deleted", "not-found", "error"} : DeleteStep(r, outcome)
           \/ WriteFails(r)
           \/ WriteDone(r)
    /\ UNCHANGED <<pageVars, credVars, formVars>>

SpecDeleteRace == RaceInit /\ [][DeleteRaceNext]_vars

\* The call in slot s is a deleteProduct that has returned success.
Deleted(s) == req[s].op = "delete" /\ req[s].pc = "done" /\ req[s].result = "ok"

\* The call in slot r is an updateProduct of the product the call in slot s
\* deleted, made while the record existed.
UpdateBeside(r, s) ==
    /\ req[r].op = "update" /\ req[r].id = req[s].id
    /\ req[r].id \in DOMAIN req[r].pre.store

\* C25: once deleteProduct has returned success the product stays absent from
\* the store, whatever an updateProduct running beside it does: an update that
\* has returned success wrote its record before the deletion, and every other
\* update returns a failure.
C25_UpdateDoesNotRecreate ==
    \A s \in Slots : Deleted(s) =>
        /\ req[s].id \notin DOMAIN store
        /\ \A r \in Slots : UpdateBeside(r, s) =>
               /\ req[r].wseq < req[s].wseq
               /\ (req[r].pc = "done" /\ req[r].wseq = 0) => req[r].result # "ok"

\* C25's case: the update had read the record, the deletion succeeded, and the
\* write of the update was rejected: the update has returned the generic
\* failure and the record is absent.
C25_Witness ==
    \E s \in Slots, r \in Slots :
        /\ Deleted(s) /\ UpdateBeside(r, s)
        /\ req[r].existing # <<>>
        /\ req[r].pc = "done" /\ req[r].result = "failed" /\ req[r].cause = "write"
        /\ req[s].id \notin DOMAIN store

----------------------------------------------------------------------------
\* The product list across calls: one admin, one call at a time, from a store
\* of two products.

ListStore ==
    (1 :> [data |-> [name |-> "n0", featured |-> FALSE],
           images |-> <<UrlOf(1)>>, createdAt |-> 1])
    @@ (2 :> [data |-> [name |-> "n0", featured |-> FALSE],
              images |-> <<UrlOf(2)>>, createdAt |-> 2])

ListInit ==
    /\ PageIdle
    /\ CredIdle
    /\ FormIdle
    /\ store = ListStore
    /\ storage = RaceStorage
    /\ nextDoc = 3
    /\ nextObj = 3
    /\ calls = 0
    /\ req = [r \in Slots |-> Idle]

ListNext ==
    /\ \E r \in {1} :
           \/ /\ Free(r)
              /\ \E data \in RaceFields, images \in RaceSubmissions :
                     CallAdd(r, data, images)
           \/ /\ Free(r)
              /\ \E id \in Ids, data \in RaceFields, images \in RaceSubmissions :
                     CallUpdate(r, id, data, images)
           \/ /\ Free(r)
              /\ \E id \in Ids : CallDelete(r, id)
           \/ ReadFails(r)
           \/ ReadDone(r)
           \/ \E i \in 1..Len(req[r].up) : UploadDone(r, i)
           \/ \E i \in 1..Len(req[r].up), stored \in BOOLEAN : UploadFails(r, i, stored)
           \/ \E outcome \in {"deleted", "not-found", "error"} : DeleteStep(r, outcome)
           \/ WriteFails(r)
           \/ WriteDone(r)
    /\ UNCHANGED <<pageVars, credVars, formVars>>

SpecList == ListInit /\ [][ListNext]_vars

\* The identifiers of the products getProductsAction returns, in its order.
ListedIds == [k \in 1..Len(GetProductsAction) |-> GetProductsAction[k].id]

\* The call in slot r takes a step.
StepOf(r) == req[r].pc \notin {"idle", "done"} /\ req'[r] # req[r]

\* C26: no step of an updateProduct call changes the identifier or the
\* creation timestamp of a record or touches the record of another product,
\* and the list of getProductsAction has the same products in the same order
\* before and after it; the products listed change only with the record write
\* of a successful addProduct or deleteProduct.
C26_UpdateKeepsListOrder ==
    [][/\ \A r \in Slots : (req[r].op = "update" /\ StepOf(r)) =>
              /\ DOMAIN store' = DOMAIN store
              /\ \A d \in DOMAIN store :
                     /\ store'[d].createdAt = store[d].createdAt
                     /\ d # req[r].id => store'[d] = store[d]
              /\ ListedIds' = ListedIds
       /\ ListedIds' # ListedIds =>
              \E r \in Slots : /\ req[r].op \in {"add", "delete"}
                               /\ req[r].pc = "write" /\ req'[r].result = "ok"]_vars

\* C26's case: a successful update has changed the record of the older of two
\* products, and the list still shows the newer one first.
C26_Witness ==
    \E r \in Slots : LET q == req[r] IN
        /\ q.op = "update" /\ q.pc = "done" /\ q.result = "ok"
        /\ q.id = 1 /\ q.pre.store = ListStore
        /\ store[1] # ListStore[1]
        /\ store[1].createdAt = 1
        /\ store[2] = ListStore[2]
        /\ ListedIds = <<2, 1>>

----------------------------------------------------------------------------
\* ProductForm: the image list of the product form, the selections of files
\* (handleImageChange, which awaits the reads of the files) and the removals
\* (removeImage), in every interleaving.

\* product?.images ?? []: the form of a new product, and the form of a product
\* that has two images.
InitialImages == {<<>>, <<UrlOf(1), UrlOf(2)>>}

\* reader.result of readAsDataURL(file): the data URL of the file.
DataUrlOf(file) == <<"png", file>>

\* images.filter((_, index) => index !== indexToRemove), indices from 1
WithoutIndex(images, indexToRemove) ==
    [k \in 1..(Len(images) - 1) |->
        IF k < indexToRemove THEN images[k] ELSE images[k + 1]]

\* handleImageChange(e) with n files selected, up to its await: the limit test
\* on the form value read now, then the reads of the files start.
HandleImageChange(n) ==
    /\ nextFile + n - 1 <= MaxFiles
    /\ Cardinality(reads) < MaxReads
    /\ nextFile' = nextFile + n
    /\ LET currentImages == formImages
           files == [i \in 1..n |-> nextFile + i - 1] IN
       IF Len(currentImages) + n > MaxImages
       THEN /\ formToast' = "limit"
            /\ UNCHANGED reads
       ELSE /\ reads' = reads \cup {[currentImages |-> currentImages, files |-> files]}
            /\ UNCHANGED formToast
    /\ UNCHANGED <<formImages, imagePreview, removed, adminVars, pageVars, credVars>>

\* handleImageChange after Promise.all(newImagePromises) resolves: the list
\* read before the await followed by the new data URLs becomes the preview
\* and the form value.
ReadsDone(p) ==
    /\ p \in reads
    /\ LET newImageUrls == [i \in 1..Len(p.files) |-> DataUrlOf(p.files[i])]
           allImages == p.currentImages \o newImageUrls IN
       /\ imagePreview' = allImages
       /\ formImages' = allImages
    /\ reads' = reads \ {p}
    /\ UNCHANGED <<formToast, nextFile, removed, adminVars, pageVars, credVars>>

\* handleImageChange when a read fails: the catch block shows a toast.
ReadsFail(p) ==
    /\ p \in reads
    /\ formToast' = "read-error"
    /\ reads' = reads \ {p}
    /\ UNCHANGED <<formImages, imagePreview, nextFile, removed, adminVars, pageVars, credVars>>

\* removeImage(indexToRemove) on a previewed image.
RemoveImage(indexToRemove) ==
    /\ indexToRemove \in 1..Len(imagePreview)
    /\ LET updatedImages == WithoutIndex(imagePreview, indexToRemove) IN
       /\ imagePreview' = updatedImages
       /\ formImages' = updatedImages
    /\ removed' = removed \cup {imagePreview[indexToRemove]}
    /\ UNCHANGED <<reads, formToast, nextFile, adminVars, pageVars, credVars>>

FormInit ==
    /\ AdminIdle
    /\ PageIdle
    /\ CredIdle
    /\ formImages \in InitialImages
    /\ imagePreview = formImages
    /\ reads = {}
    /\ formToast = "none"
    /\ nextFile = 1
    /\ removed = {}

FormNext ==
    \/ \E n \in 1..MaxSelect : HandleImageChange(n)
    \/ \E p \in reads : ReadsDone(p)
    \/ \E p \in reads : ReadsFail(p)
    \/ \E indexToRemove \in 1..MaxImages : RemoveImage(indexToRemove)

SpecForm == FormInit /\ [][FormNext]_vars

\* The form's image list has at most MaxImages entries and is the previewed
\* list.
FormListBoundedAndPreviewed ==
    /\ Len(formImages) <= MaxImages
    /\ formImages = imagePreview

\* C27: after any interleaving of selections and removals the form's image
\* list has at most 5 entries, equals the previewed list, and contains no
\* image the user removed.
C27_FormImageList ==
    /\ Len(formImages) <= MaxImages
    /\ formImages = imagePreview
    /\ \A x \in removed : ~Includes(formImages, x)

====
